---- MODULE Spec2Model ----
(***************************************************************************)
(* Model of the telegraf SQL Server input plugin                           *)
(* (plugins/inputs/sqlserver/sqlserver.go): the query selection done by    *)
(* initQueries, the fan-out of Gather over servers x queries, the unit of  *)
(* work gatherServer and the row decoder accRow.                           *)
(***************************************************************************)
EXTENDS Bags, FiniteSets, Integers, Naturals, Sequences, TLC

(***************************************************************************)
(* Bounds of the model.                                                    *)
(***************************************************************************)
MaxListLen == 2
MaxTagKeys == 1
MaxServers == 2
MaxInclude == 3
MaxInstances == 1
MaxUnits == 2
MaxRows == 1
MaxCycles == 2
MaxServices == 2

(***************************************************************************)
(* Small input alphabets.                                                  *)
(***************************************************************************)
\* Names the configuration lists are drawn from: one name of both catalogs,
\* one of version 2 only, one of version 1 only, one extended-metrics name
\* and one name of no catalog.
QueryNames ==
  {"PerformanceCounters", "Cpu", "CPUHistory", "AzureDBResourceStats", "NoSuchQuery"}

QueryVersions == {0, 1, 2}

TagNames == {"host", "measurement"}

\* The configured servers are a prefix of ServerPool, the include-list of a
\* Gather cycle a prefix of IncludePool (its first name is in no catalog).
ServerPool == <<"s1", "s2", "s3", "s4">>

IncludePool == <<"NoSuchQuery", "Cpu", "DatabaseIO", "Schedulers", "SqlRequests">>

Prefixes(pool, n) == {SubSeq(pool, 1, k) : k \in 0..n}

RECURSIVE SeqsUpTo(_, _)
SeqsUpTo(S, n) ==
  IF n = 0 THEN {<<>>}
  ELSE LET shorter == SeqsUpTo(S, n - 1)
       IN  shorter \cup {Append(s, x) : s \in {t \in shorter : Len(t) = n - 1}, x \in S}

(***************************************************************************)
(* The query catalog: name -> script, per version.                         *)
(***************************************************************************)
AzureCatalog ==
  [n \in {"AzureDBResourceStats", "AzureDBResourceGovernance"} |->
     CASE n = "AzureDBResourceStats"      -> "sqlAzureDBResourceStats"
       [] n = "AzureDBResourceGovernance" -> "sqlAzureDBResourceGovernance"]

CatalogV2Names ==
  {"PerformanceCounters", "WaitStatsCategorized", "DatabaseIO", "ServerProperties",
   "MemoryClerk", "Schedulers", "SqlRequests", "VolumeSpace", "Cpu", "AlwaysOnHealth",
   "CachedPlans", "InstanceWaits", "PageLifeExpectancy", "LogUsage",
   "DatabasesByInstance", "DatabasesOnAG", "JobRuns", "DatabaseProperties", "Backups",
   "OrphanedUsers", "UsersSysadmin", "LockedUsers", "PolicyChecked", "DiskUsage"}

CatalogV2 ==
  [n \in CatalogV2Names |->
     CASE n = "PerformanceCounters"  -> "sqlPerformanceCountersV2"
       [] n = "WaitStatsCategorized" -> "sqlWaitStatsCategorizedV2"
       [] n = "DatabaseIO"           -> "sqlDatabaseIOV2"
       [] n = "ServerProperties"     -> "sqlServerPropertiesV2"
       [] n = "MemoryClerk"          -> "sqlMemoryClerkV2"
       [] n = "Schedulers"           -> "sqlServerSchedulersV2"
       [] n = "SqlRequests"          -> "sqlServerRequestsV2"
       [] n = "VolumeSpace"          -> "sqlServerVolumeSpaceV2"
       [] n = "Cpu"                  -> "sqlServerCpuV2"
       [] n = "AlwaysOnHealth"       -> "alwaysOnHealthV2"
       [] n = "CachedPlans"          -> "sqlCachedPlansV2"
       [] n = "InstanceWaits"        -> "sqlInstanceWaitsV2"
       [] n = "PageLifeExpectancy"   -> "sqlPageLifeExpectancyV2"
       [] n = "LogUsage"             -> "sqlLogUsageV2"
       [] n = "DatabasesByInstance"  -> "sqlDatabasesByInstanceV2"
       [] n = "DatabasesOnAG"        -> "sqlDatabasesOnAGV2"
       [] n = "JobRuns"              -> "sqlJobRunsV2"
       [] n = "DatabaseProperties"   -> "sqlDatabasePropertiesV2"
       [] n = "Backups"              -> "sqlBackupsV2"
       [] n = "OrphanedUsers"        -> "sqlOrphanedUsersV2"
       [] n = "UsersSysadmin"        -> "sqlUsersSysadminV2"
       [] n = "LockedUsers"          -> "sqlLockedUsersV2"
       [] n = "PolicyChecked"        -> "sqlPolicyCheckedV2"
       [] n = "DiskUsage"            -> "sqlDiskUsageV2"]

CatalogV1Names ==
  {"PerformanceCounters", "WaitStatsCategorized", "CPUHistory", "DatabaseIO",
   "DatabaseSize", "DatabaseStats", "DatabaseProperties", "MemoryClerk", "VolumeSpace",
   "PerformanceMetrics"}

CatalogV1 ==
  [n \in CatalogV1Names |->
     CASE n = "PerformanceCounters"  -> "sqlPerformanceCounters"
       [] n = "WaitStatsCategorized" -> "sqlWaitStatsCategorized"
       [] n = "CPUHistory"           -> "sqlCPUHistory"
       [] n = "DatabaseIO"           -> "sqlDatabaseIO"
       [] n = "DatabaseSize"         -> "sqlDatabaseSize"
       [] n = "DatabaseStats"        -> "sqlDatabaseStats"
       [] n = "DatabaseProperties"   -> "sqlDatabaseProperties"
       [] n = "MemoryClerk"          -> "sqlMemoryClerk"
       [] n = "VolumeSpace"          -> "sqlVolumeSpace"
       [] n = "PerformanceMetrics"   -> "sqlPerformanceMetrics"]

\* Variant: version 1 only for the value 1, version 2 for any other value.
VersionCatalogDefaultsToV2(version) == IF version = 1 THEN CatalogV1 ELSE CatalogV2

\* The version switch of initQueries: version 2 or, for any other value,
\* version 1.
VersionCatalog(version) == IF version = 2 THEN CatalogV2 ELSE CatalogV1

\* Variant: the extended-metrics queries are candidates only with version 2.
ActiveCatalogAzureWithV2(version, azure) ==
  LET vc    == VersionCatalog(version)
      names == (IF azure /\ version = 2 THEN DOMAIN AzureCatalog ELSE {}) \cup DOMAIN vc
  IN  [n \in names |-> IF n \in DOMAIN vc THEN vc[n] ELSE AzureCatalog[n]]

\* The candidates of initQueries: the extended-metrics queries when azuredb
\* is set, then the catalog of the version.
ActiveCatalog(version, azure) ==
  LET vc    == VersionCatalog(version)
      names == (IF azure THEN DOMAIN AzureCatalog ELSE {}) \cup DOMAIN vc
  IN  [n \in names |-> IF n \in DOMAIN vc THEN vc[n] ELSE AzureCatalog[n]]

(***************************************************************************)
(* The SQLServer struct, the state of one Gather cycle and the accumulator.*)
(***************************************************************************)
VARIABLES
  Servers, QueryVersion, AzureDB, IncludeQuery, ExcludeQuery,
  LocalInstancesAutoDiscovery, TagKeys,
  includeQueries, excludeQueries, tags, queries, isInitialized,
  gatherPc, gatherRet, wg, units, accFields, accErrors, crashed,
  rowArg, rowRet,
  discovery, cycle, calls,
  ServiceNames, svcFilter, winRet, winListed, winGathered, winAcc, winLog, winTrace,
  winErrors, winEnv

cfgVars == <<QueryVersion, AzureDB, IncludeQuery, ExcludeQuery,
             LocalInstancesAutoDiscovery, TagKeys>>
selVars == <<includeQueries, excludeQueries, tags, queries, isInitialized>>
runVars == <<gatherPc, gatherRet, wg, units, accFields, accErrors, crashed>>
rowVars == <<rowArg, rowRet>>
\* The WinServices struct (ServiceNames, svcFilter for its field filter) and
\* what its last Gather call did: the value returned, the names the service
\* manager listed, the names listServices returned, the metrics added, the
\* lines logged, the calls made on the service manager and on the services.
\* winErrors are the errors handed to the accumulator, winEnv what the
\* service manager answered during the last call.
winVars == <<ServiceNames, svcFilter, winRet, winListed, winGathered, winAcc, winLog,
             winTrace, winErrors, winEnv>>

\* discovery is what the local-instance discovery of this process came to
\* ("none" while it has not run), cycle the number of Gather calls so far,
\* calls the position of each of two Gather calls made at the same time.
obsVars == <<discovery, cycle, calls>>
vars == <<Servers, cfgVars, selVars, runVars, rowVars, obsVars, winVars>>

(***************************************************************************)
(* Query selection.                                                        *)
(***************************************************************************)
\* initIncludeQueries, initExcludeQueries, initTags: a list becomes the key
\* set of a map.
ListToSet(list) == {list[i] : i \in DOMAIN list}

\* Variant: the include test is made even when the include map is empty.
filterRequiresInclude(queryMetricName, inc, exc) ==
  LET afterInclude == queryMetricName \in inc
  IN  IF exc # {} THEN queryMetricName \notin exc ELSE afterInclude

\* Variant: the exclude test is skipped once the include test has accepted.
filterIncludeWins(queryMetricName, inc, exc) ==
  IF inc # {} /\ queryMetricName \in inc THEN TRUE
  ELSE IF exc # {} THEN queryMetricName \notin exc ELSE inc = {}

\* Variant: the exclude test accepts the names of the exclude map.
filterExcludeNotNegated(queryMetricName, inc, exc) ==
  LET afterInclude == IF inc # {} THEN queryMetricName \in inc ELSE TRUE
  IN  IF exc # {} THEN queryMetricName \in exc ELSE afterInclude

\* Variant: the include test is never made.
filterIgnoresInclude(queryMetricName, inc, exc) ==
  IF exc # {} THEN queryMetricName \notin exc ELSE TRUE

\* Variant: the exclude test is applied to what the include test accepted.
filterIncludeThenExclude(queryMetricName, inc, exc) ==
  LET afterInclude == IF inc # {} THEN queryMetricName \in inc ELSE TRUE
  IN  afterInclude /\ queryMetricName \notin exc

\* The closure filter of initQueries: the exclude test, when the exclude map
\* is non-empty, overwrites the outcome of the include test.
filter(queryMetricName, inc, exc) ==
  LET afterInclude == IF inc # {} THEN queryMetricName \in inc ELSE TRUE
  IN  IF exc # {} THEN queryMetricName \notin exc ELSE afterInclude

\* The MapQuery built by initQueries.
buildQueries(version, azure, inc, exc) ==
  LET cat == ActiveCatalog(version, azure)
  IN  [n \in {m \in DOMAIN cat : filter(m, inc, exc)} |->
         [Script |-> cat[n], OrderedColumns |-> <<>>]]

\* Variant: the build leaves s.isInitialized as it was.
initQueriesForgetsFlag ==
  /\ includeQueries' = ListToSet(IncludeQuery)
  /\ excludeQueries' = ListToSet(ExcludeQuery)
  /\ tags' = ListToSet(TagKeys)
  /\ queries' = buildQueries(QueryVersion, AzureDB,
                             ListToSet(IncludeQuery), ListToSet(ExcludeQuery))
  /\ UNCHANGED isInitialized

\* initQueries: the three sets, the MapQuery and the flag.
initQueries ==
  /\ includeQueries' = ListToSet(IncludeQuery)
  /\ excludeQueries' = ListToSet(ExcludeQuery)
  /\ tags' = ListToSet(TagKeys)
  /\ queries' = buildQueries(QueryVersion, AzureDB,
                             ListToSet(IncludeQuery), ListToSet(ExcludeQuery))
  /\ isInitialized' = TRUE

(***************************************************************************)
(* Specification of the selector alone: any configuration, then the build. *)
(***************************************************************************)
NoUnits == [u \in {} |-> 0]

\* Two Gather calls on one plugin instance.
GatherCalls == {1, 2}

\* The Windows-services plugin before its first Gather.
NilFilter == [nil |-> TRUE, patterns |-> {}]

\* No call was made on the service manager.
NoEnv == [connectErr |-> FALSE, listErr |-> FALSE, names |-> <<>>, outcome |-> <<>>]

InitWinRun ==
  /\ svcFilter = NilFilter
  /\ winRet = "none"
  /\ winListed = <<>>
  /\ winGathered = <<>>
  /\ winAcc = <<>>
  /\ winLog = <<>>
  /\ winTrace = <<>>
  /\ winErrors = <<>>
  /\ winEnv = NoEnv

\* The SQL Server plugin before its first Gather.
InitSqlRun ==
  /\ includeQueries = {}
  /\ excludeQueries = {}
  /\ tags = {}
  /\ queries = [n \in {} |-> 0]
  /\ isInitialized = FALSE
  /\ gatherPc = "idle"
  /\ gatherRet = "none"
  /\ wg = 0
  /\ units = NoUnits
  /\ accFields = EmptyBag
  /\ accErrors = EmptyBag
  /\ crashed = FALSE
  /\ rowArg = <<>>
  /\ rowRet = <<>>
  /\ discovery = "none"
  /\ cycle = 0
  /\ calls = [k \in GatherCalls |-> [pc |-> "idle", built |-> FALSE, discovered |-> FALSE]]

InitRun ==
  /\ InitSqlRun
  /\ ServiceNames = <<>>
  /\ InitWinRun

InitSel ==
  /\ Servers = <<>>
  /\ QueryVersion \in QueryVersions
  /\ AzureDB \in BOOLEAN
  /\ IncludeQuery \in SeqsUpTo(QueryNames, MaxListLen)
  /\ ExcludeQuery \in SeqsUpTo(QueryNames, MaxListLen)
  /\ LocalInstancesAutoDiscovery = FALSE
  /\ TagKeys \in SeqsUpTo(TagNames, MaxTagKeys)
  /\ InitRun

BuildQuerySet ==
  /\ ~isInitialized
  /\ initQueries
  /\ UNCHANGED <<Servers, cfgVars, runVars, rowVars, winVars, obsVars>>

NextSel == BuildQuerySet

SpecSel == InitSel /\ [][NextSel]_vars

(***************************************************************************)
(* Local-instance discovery.                                               *)
(***************************************************************************)
InstanceNames == {"MSSQLSERVER", "mssqlserver", "SQLEXPRESS"}

Hostname == "HOST"

\* strings.ToUpper on the instance names of the model.
ToUpper(instance) == IF instance = "mssqlserver" THEN "MSSQLSERVER" ELSE instance

\* The connection string appended for one discovered instance
\* (fmt.Sprintf of the hostname and, for a named instance, the instance).
connString(hostname, instance) ==
  IF ToUpper(instance) = "MSSQLSERVER"
  THEN "Server=" \o hostname \o ";Integrated Security=SSPI;"
  ELSE "Server=" \o hostname \o "\\" \o instance \o ";Integrated Security=SSPI;"

\* Variant: a failed os.Hostname is not looked at and the instances are
\* appended with an empty host name.
includeConnStringsIgnoresHostnameErr(servers, lookup) ==
  IF lookup.instancesErr THEN servers
  ELSE servers \o [i \in DOMAIN lookup.instances |->
                     connString(IF lookup.hostnameErr THEN "" ELSE Hostname,
                                lookup.instances[i])]

\* includeConnStringsForLocalInstances: lookup is the outcome of
\* getLocalInstances and os.Hostname; on either failure nothing is appended.
includeConnStringsForLocalInstances(servers, lookup) ==
  IF lookup.instancesErr \/ lookup.hostnameErr THEN servers
  ELSE servers \o [i \in DOMAIN lookup.instances |->
                     connString(Hostname, lookup.instances[i])]

\* How the discovery ended: getLocalInstances failed, os.Hostname failed
\* (it is called only after getLocalInstances succeeded), or neither.
LookupResult(lookup) ==
  IF lookup.instancesErr THEN "instancesErr"
  ELSE IF lookup.hostnameErr THEN "hostnameErr"
  ELSE "ok"

\* What the registry and the host answer.
LookupOutcomes ==
  [instancesErr : BOOLEAN, hostnameErr : BOOLEAN,
   instances : SeqsUpTo(InstanceNames, MaxInstances)]

(***************************************************************************)
(* Row values, as the driver scans them into interface{} variables.        *)
(***************************************************************************)
Str(s) == [t |-> "string", v |-> s]
Int64(s) == [t |-> "int64", v |-> s]
Nil == [t |-> "nil", v |-> ""]

\* Result shapes a query may have and the values a column may hold, for
\* the row decoder alone.
ColumnSets ==
  {<<"measurement", "host", "value">>, <<"value", "host", "measurement">>,
   <<"host", "value">>}

RowValues == {Str("h1"), Int64("42"), Nil}

RowsOf(cols) == [DOMAIN cols -> RowValues]

\* The result shape and the rows the servers of a Gather cycle answer with.
ServerColumns == <<"measurement", "host", "value">>

ServerRows == {<<Str("m"), Str("h1"), Int64("42")>>, <<Nil, Str("h1"), Int64("42")>>}

(***************************************************************************)
(* Row decoding.                                                           *)
(***************************************************************************)
\* columnMap of accRow: one entry per column name, holding the value scanned
\* for the last column of that name.
columnMapOf(cols, vals) ==
  [h \in ListToSet(cols) |->
     vals[CHOOSE i \in DOMAIN cols :
            cols[i] = h /\ \A j \in DOMAIN cols : cols[j] = h => j <= i]]

\* Variant: a column whose scanned value is nil is left out of the fields.
accRowDropsNil(cols, vals, tagKeys) ==
  LET columnMap   == columnMapOf(cols, vals)
      isTag(h)    == h \in tagKeys
      asserted    == {h \in DOMAIN columnMap : h = "measurement" \/ isTag(h)}
      tagHeaders  == {h \in DOMAIN columnMap : h # "measurement" /\ isTag(h)}
      fldHeaders  == {h \in DOMAIN columnMap :
                        h # "measurement" /\ ~isTag(h) /\ columnMap[h] # Nil}
  IN  IF \E h \in asserted : columnMap[h].t # "string"
      THEN [outcome |-> "panic"]
      ELSE [outcome |-> "ok",
            measurement |-> IF "measurement" \in DOMAIN columnMap
                            THEN columnMap["measurement"].v ELSE "",
            tags   |-> [h \in tagHeaders |-> columnMap[h].v],
            fields |-> [h \in fldHeaders |-> columnMap[h]]]

\* Variant: every other column holding a string is a tag, whatever tag_keys
\* says.
accRowStringsAreTags(cols, vals, tagKeys) ==
  LET columnMap   == columnMapOf(cols, vals)
      isTag(h)    == columnMap[h].t = "string"
      tagHeaders  == {h \in DOMAIN columnMap : h # "measurement" /\ isTag(h)}
      fldHeaders  == {h \in DOMAIN columnMap : h # "measurement" /\ ~isTag(h)}
  IN  IF "measurement" \in DOMAIN columnMap /\ columnMap["measurement"].t # "string"
      THEN [outcome |-> "panic"]
      ELSE [outcome |-> "ok",
            measurement |-> IF "measurement" \in DOMAIN columnMap
                            THEN columnMap["measurement"].v ELSE "",
            tags   |-> [h \in tagHeaders |-> columnMap[h].v],
            fields |-> [h \in fldHeaders |-> columnMap[h]]]

\* Variant: the tag test is made before the test for the measurement header.
accRowTagTestFirst(cols, vals, tagKeys) ==
  LET columnMap   == columnMapOf(cols, vals)
      isTag(h)    == h \in tagKeys
      isName(h)   == h = "measurement" /\ ~isTag(h)
      asserted    == {h \in DOMAIN columnMap : isName(h) \/ isTag(h)}
      tagHeaders  == {h \in DOMAIN columnMap : isTag(h)}
      fldHeaders  == {h \in DOMAIN columnMap : ~isName(h) /\ ~isTag(h)}
  IN  IF \E h \in asserted : columnMap[h].t # "string"
      THEN [outcome |-> "panic"]
      ELSE [outcome |-> "ok",
            measurement |-> IF \E h \in DOMAIN columnMap : isName(h)
                            THEN columnMap["measurement"].v ELSE "",
            tags   |-> [h \in tagHeaders |-> columnMap[h].v],
            fields |-> [h \in fldHeaders |-> columnMap[h]]]

\* The classification loop of accRow over columnMap.  A type assertion
\* .(string) on a value that is not a string panics; otherwise the record
\* handed to acc.AddFields is returned.  measurement keeps its zero value ""
\* when no column is named measurement.
accRow(cols, vals, tagKeys) ==
  LET columnMap   == columnMapOf(cols, vals)
      isTag(h)    == h \in tagKeys
      asserted    == {h \in DOMAIN columnMap : h = "measurement" \/ isTag(h)}
      tagHeaders  == {h \in DOMAIN columnMap : h # "measurement" /\ isTag(h)}
      fldHeaders  == {h \in DOMAIN columnMap : h # "measurement" /\ ~isTag(h)}
  IN  IF \E h \in asserted : columnMap[h].t # "string"
      THEN [outcome |-> "panic"]
      ELSE [outcome |-> "ok",
            measurement |-> IF "measurement" \in DOMAIN columnMap
                            THEN columnMap["measurement"].v ELSE "",
            tags   |-> [h \in tagHeaders |-> columnMap[h].v],
            fields |-> [h \in fldHeaders |-> columnMap[h]]]

MetricOf(r) == [measurement |-> r.measurement, tags |-> r.tags, fields |-> r.fields]

(***************************************************************************)
(* The accumulator (telegraf.Accumulator).                                 *)
(***************************************************************************)
NilErr == [kind |-> "nil"]

\* An error as the driver returns it: gatherServer hands it on unchanged.
DriverErr(kind) == [kind |-> kind]

AddFields(acc, metric) == acc (+) SetToBag({metric})

\* AddError drops a nil error.
AddError(acc, err) == IF err = NilErr THEN acc ELSE acc (+) SetToBag({err})

(***************************************************************************)
(* Gather: the fan-out, and the units of work.                             *)
(***************************************************************************)
\* One goroutine per (server position, query name); it gets copies of the
\* connection string and of the Query value.  openCalls and queryCalls count
\* the calls of sql.Open and conn.Query, opens and rowsOpens those that
\* succeeded.
UnitKeys(servers, qs) == {<<i, n>> : i \in DOMAIN servers, n \in DOMAIN qs}

NewUnit(serv, query) ==
  [serv |-> serv, query |-> query, pc |-> "open", err |-> NilErr,
   opens |-> 0, closes |-> 0, rowsOpens |-> 0, rowsCloses |-> 0,
   fetched |-> 0, delivered |-> 0, addErrors |-> 0,
   openCalls |-> 0, queryCalls |-> 0]

\* Variant: the discovery runs in every Gather call that finds it configured.
DiscoversEveryCycle == LocalInstancesAutoDiscovery

\* Gather calls includeConnStringsForLocalInstances inside the
\* !s.isInitialized branch, when auto-discovery is configured.
Discovers == ~isInitialized /\ LocalInstancesAutoDiscovery

\* Variant: a Gather call that finds no query to run reports an error.
GatherLaunchRejectsEmpty ==
  /\ gatherPc = "idle"
  /\ ~crashed
  /\ cycle < MaxCycles
  /\ cycle' = cycle + 1
  /\ IF ~isInitialized THEN initQueries ELSE UNCHANGED selVars
  /\ IF Discovers
     THEN \E lookup \in LookupOutcomes :
            /\ Servers' = includeConnStringsForLocalInstances(Servers, lookup)
            /\ discovery' = LookupResult(lookup)
     ELSE UNCHANGED <<Servers, discovery>>
  /\ units' = [u \in UnitKeys(Servers', queries') |->
                 NewUnit(Servers'[u[1]], queries'[u[2]])]
  /\ wg' = Cardinality(UnitKeys(Servers', queries'))
  /\ gatherPc' = "waiting"
  /\ accErrors' = IF DOMAIN queries' = {}
                  THEN AddError(accErrors, DriverErr("no queries")) ELSE accErrors
  /\ UNCHANGED <<cfgVars, gatherRet, accFields, crashed, rowVars, winVars, calls>>

\* Gather up to wg.Wait: the one-time initialization, then one goroutine
\* per server and selected query, each counted in the wait group.
GatherLaunch ==
  /\ gatherPc = "idle"
  /\ ~crashed
  /\ cycle < MaxCycles
  /\ cycle' = cycle + 1
  /\ IF ~isInitialized THEN initQueries ELSE UNCHANGED selVars
  /\ IF Discovers
     THEN \E lookup \in LookupOutcomes :
            /\ Servers' = includeConnStringsForLocalInstances(Servers, lookup)
            /\ discovery' = LookupResult(lookup)
     ELSE UNCHANGED <<Servers, discovery>>
  /\ units' = [u \in UnitKeys(Servers', queries') |->
                 NewUnit(Servers'[u[1]], queries'[u[2]])]
  /\ wg' = Cardinality(UnitKeys(Servers', queries'))
  /\ gatherPc' = "waiting"
  /\ UNCHANGED <<cfgVars, gatherRet, accFields, accErrors, crashed, rowVars, winVars, calls>>

\* wg.Wait() returns when the counter is zero; Gather returns nil.
GatherReturn ==
  /\ gatherPc = "waiting"
  /\ ~crashed
  /\ wg = 0
  /\ gatherPc' = "returned"
  /\ gatherRet' = "nil"
  /\ UNCHANGED <<Servers, cfgVars, selVars, wg, units, accFields, accErrors, crashed,
                 rowVars, winVars, obsVars>>

Running(u) == ~crashed /\ u \in DOMAIN units

\* What a step of one goroutine leaves alone.
unitFrame == <<Servers, cfgVars, selVars, gatherPc, gatherRet, crashed, rowVars, winVars, obsVars>>

\* The deferred calls of gatherServer: rows.Close() if the cursor was
\* opened, then conn.Close() if the connection was opened.
RunDefers(unit) ==
  [unit EXCEPT !.rowsCloses = @ + (unit.rowsOpens - unit.rowsCloses),
               !.closes = @ + (unit.opens - unit.closes)]

\* Variant: an early return that skips the deferred Close calls.
ReturnErrNoDefers(unit, err) == [unit EXCEPT !.err = err, !.pc = "report"]

\* Variant: a failed unit is sent back to sql.Open once before it gives up.
ReturnErrRetry(unit, err) ==
  IF err # NilErr /\ unit.openCalls < 2
  THEN [RunDefers(unit) EXCEPT !.pc = "open"]
  ELSE [RunDefers(unit) EXCEPT !.err = err, !.pc = "report"]

\* A return of gatherServer with the error err (nil at the normal end).
ReturnErr(unit, err) == [RunDefers(unit) EXCEPT !.err = err, !.pc = "report"]

\* Variant: a failed sql.Open is taken for a success and gatherServer goes
\* on to conn.Query.
UnitOpenIgnoresErr(u) ==
  /\ Running(u)
  /\ units[u].pc = "open"
  /\ \E ok \in BOOLEAN :
       units' = [units EXCEPT ![u] =
                   IF ok THEN [@ EXCEPT !.openCalls = @ + 1, !.opens = @ + 1,
                                        !.pc = "query"]
                   ELSE [@ EXCEPT !.openCalls = @ + 1, !.pc = "query"]]
  /\ UNCHANGED <<unitFrame, wg, accFields, accErrors>>

\* sql.Open
UnitOpen(u) ==
  /\ Running(u)
  /\ units[u].pc = "open"
  /\ \E ok \in BOOLEAN :
       units' = [units EXCEPT ![u] =
                   IF ok THEN [@ EXCEPT !.openCalls = @ + 1, !.opens = @ + 1,
                                        !.pc = "query"]
                   ELSE ReturnErr([@ EXCEPT !.openCalls = @ + 1], DriverErr("open"))]
  /\ UNCHANGED <<unitFrame, wg, accFields, accErrors>>

\* conn.Query(query.Script)
UnitQuery(u) ==
  /\ Running(u)
  /\ units[u].pc = "query"
  /\ \E ok \in BOOLEAN :
       units' = [units EXCEPT ![u] =
                   IF ok THEN [@ EXCEPT !.queryCalls = @ + 1, !.rowsOpens = @ + 1,
                                        !.pc = "columns"]
                   ELSE ReturnErr([@ EXCEPT !.queryCalls = @ + 1], DriverErr("query"))]
  /\ UNCHANGED <<unitFrame, wg, accFields, accErrors>>

\* Variant: the goroutine holds a reference to the Query of s.queries and
\* rows.Columns() is stored there.
UnitColumnsShared(u) ==
  /\ Running(u)
  /\ units[u].pc = "columns"
  /\ \/ /\ units' = [units EXCEPT ![u] =
                         [@ EXCEPT !.query.OrderedColumns = ServerColumns, !.pc = "next"]]
        /\ queries' = [queries EXCEPT ![u[2]].OrderedColumns = ServerColumns]
     \/ /\ units' = [units EXCEPT ![u] = ReturnErr(@, DriverErr("columns"))]
        /\ UNCHANGED queries
  /\ UNCHANGED <<Servers, cfgVars, includeQueries, excludeQueries, tags, isInitialized,
                 gatherPc, gatherRet, crashed, rowVars, winVars, obsVars, wg, accFields,
                 accErrors>>

\* rows.Columns(), stored in the goroutine's copy of the Query
UnitColumns(u) ==
  /\ Running(u)
  /\ units[u].pc = "columns"
  /\ \/ units' = [units EXCEPT ![u] =
                      [@ EXCEPT !.query.OrderedColumns = ServerColumns, !.pc = "next"]]
     \/ units' = [units EXCEPT ![u] = ReturnErr(@, DriverErr("columns"))]
  /\ UNCHANGED <<unitFrame, wg, accFields, accErrors>>

\* Variant: a cursor that ends before its first row is reported as an error,
\* the way QueryRow reports sql.ErrNoRows.
UnitEndNoRowsIsError(u) ==
  /\ Running(u)
  /\ units[u].pc = "next"
  /\ \E err \in {NilErr, DriverErr("cursor")} :
       units' = [units EXCEPT ![u] =
                   ReturnErr(@, IF err = NilErr /\ units[u].fetched = 0
                                THEN DriverErr("no rows") ELSE err)]
  /\ UNCHANGED <<unitFrame, wg, accFields, accErrors>>

\* rows.Next() is false: gatherServer returns rows.Err()
UnitEnd(u) ==
  /\ Running(u)
  /\ units[u].pc = "next"
  /\ \E err \in {NilErr, DriverErr("cursor")} :
       units' = [units EXCEPT ![u] = ReturnErr(@, err)]
  /\ UNCHANGED <<unitFrame, wg, accFields, accErrors>>

\* rows.Next() is true and accRow runs: row.Scan fails, or the row is
\* classified and either a type assertion panics or the record is added.
UnitRow(u) ==
  /\ Running(u)
  /\ units[u].pc = "next"
  /\ units[u].fetched < MaxRows
  /\ \/ /\ units' = [units EXCEPT ![u] =
                       ReturnErr([@ EXCEPT !.fetched = @ + 1], DriverErr("scan"))]
        /\ UNCHANGED accFields
     \/ \E vals \in ServerRows :
          LET r == accRow(units[u].query.OrderedColumns, vals, tags)
          IN  IF r.outcome = "panic"
              THEN /\ units' = [units EXCEPT ![u] =
                                  [RunDefers(@) EXCEPT !.fetched = @ + 1,
                                                       !.pc = "panicking"]]
                   /\ UNCHANGED accFields
              ELSE /\ units' = [units EXCEPT ![u] =
                                  [@ EXCEPT !.fetched = @ + 1, !.delivered = @ + 1]]
                   /\ accFields' = AddFields(accFields, MetricOf(r))
  /\ UNCHANGED <<unitFrame, wg, accErrors>>

\* acc.AddError(s.gatherServer(serv, query, acc))
UnitReport(u) ==
  /\ Running(u)
  /\ units[u].pc = "report"
  /\ accErrors' = AddError(accErrors, units[u].err)
  /\ units' = [units EXCEPT ![u] = [@ EXCEPT !.addErrors = @ + 1, !.pc = "exit"]]
  /\ UNCHANGED <<unitFrame, wg, accFields>>

\* the deferred wg.Done(), on return and while a panic unwinds
UnitDone(u) ==
  /\ Running(u)
  /\ units[u].pc \in {"exit", "panicking"}
  /\ wg' = wg - 1
  /\ units' = [units EXCEPT ![u] =
                 [@ EXCEPT !.pc = IF @ = "exit" THEN "done" ELSE "panicked"]]
  /\ UNCHANGED <<unitFrame, accFields, accErrors>>

\* A panic that no deferred call recovers ends the process: every goroutine
\* stops where it is.
Crash ==
  /\ ~crashed
  /\ \E u \in DOMAIN units : units[u].pc = "panicked"
  /\ crashed' = TRUE
  /\ UNCHANGED <<Servers, cfgVars, selVars, gatherPc, gatherRet, wg, units,
                 accFields, accErrors, rowVars, winVars, obsVars>>

(***************************************************************************)
(* Specification of one Gather cycle.                                      *)
(***************************************************************************)
\* The number of goroutines the configuration can lead to.
UnitBound(servers, auto, version, azure, include, exclude) ==
  (Len(servers) + (IF auto THEN MaxInstances ELSE 0))
    * Cardinality(DOMAIN buildQueries(version, azure,
                                      ListToSet(include), ListToSet(exclude)))

Init ==
  /\ Servers \in Prefixes(ServerPool, MaxServers)
  /\ QueryVersion = 2
  /\ AzureDB = FALSE
  /\ IncludeQuery \in Prefixes(IncludePool, MaxInclude) \ {<<>>}
  /\ ExcludeQuery = <<>>
  /\ LocalInstancesAutoDiscovery \in BOOLEAN
  /\ TagKeys \in SeqsUpTo({"host"}, MaxTagKeys)
  /\ UnitBound(Servers, LocalInstancesAutoDiscovery, QueryVersion, AzureDB,
               IncludeQuery, ExcludeQuery) <= MaxUnits
  /\ InitRun

Next ==
  \/ GatherLaunch
  \/ GatherReturn
  \/ \E u \in DOMAIN units : UnitOpen(u)
  \/ \E u \in DOMAIN units : UnitQuery(u)
  \/ \E u \in DOMAIN units : UnitColumns(u)
  \/ \E u \in DOMAIN units : UnitEnd(u)
  \/ \E u \in DOMAIN units : UnitRow(u)
  \/ \E u \in DOMAIN units : UnitReport(u)
  \/ \E u \in DOMAIN units : UnitDone(u)
  \/ Crash

Spec == Init /\ [][Next]_vars

(***************************************************************************)
(* Specification of several Gather cycles of one plugin instance: the      *)
(* agent calls Gather again after it returned, with an accumulator it has  *)
(* drained, and the exported fields may be rewritten between two calls.    *)
(***************************************************************************)
MaxCycleUnits == 1

\* The next interval: the goroutines of the last call are gone.
NextCycle ==
  /\ gatherPc = "returned"
  /\ ~crashed
  /\ cycle < MaxCycles
  /\ gatherPc' = "idle"
  /\ gatherRet' = "none"
  /\ units' = NoUnits
  /\ accFields' = EmptyBag
  /\ accErrors' = EmptyBag
  /\ UNCHANGED <<Servers, cfgVars, selVars, wg, crashed, rowVars, winVars, obsVars>>

\* The exported fields QueryVersion, IncludeQuery, TagKeys and
\* LocalInstancesAutoDiscovery are rewritten between two Gather calls.
Reconfigure ==
  /\ gatherPc = "idle"
  /\ cycle > 0
  /\ ~crashed
  /\ QueryVersion' \in {1, 2}
  /\ IncludeQuery' \in Prefixes(IncludePool, MaxInclude)
  /\ TagKeys' \in SeqsUpTo({"host"}, MaxTagKeys)
  /\ LocalInstancesAutoDiscovery' \in BOOLEAN
  /\ <<QueryVersion', IncludeQuery', TagKeys', LocalInstancesAutoDiscovery'>>
       # <<QueryVersion, IncludeQuery, TagKeys, LocalInstancesAutoDiscovery>>
  /\ UNCHANGED <<Servers, AzureDB, ExcludeQuery, selVars, runVars, rowVars, winVars, obsVars>>

InitCycles ==
  /\ Init
  /\ UnitBound(Servers, LocalInstancesAutoDiscovery, QueryVersion, AzureDB,
               IncludeQuery, ExcludeQuery) <= MaxCycleUnits

NextCycles ==
  \/ GatherLaunch
  \/ GatherReturn
  \/ \E u \in DOMAIN units : UnitOpen(u)
  \/ \E u \in DOMAIN units : UnitQuery(u)
  \/ \E u \in DOMAIN units : UnitColumns(u)
  \/ \E u \in DOMAIN units : UnitEnd(u)
  \/ \E u \in DOMAIN units : UnitRow(u)
  \/ \E u \in DOMAIN units : UnitReport(u)
  \/ \E u \in DOMAIN units : UnitDone(u)
  \/ Crash
  \/ NextCycle
  \/ Reconfigure

SpecCycles == InitCycles /\ [][NextCycles]_vars

(***************************************************************************)
(* Specification of two Gather calls on one instance that overlap in time. *)
(* Gather takes no lock: each call reads s.isInitialized, and the calls    *)
(* that read false each run initQueries and the discovery, in steps that   *)
(* interleave with the steps of the other call and of its goroutines.      *)
(* A goroutine of call k has the key <<server position, query name, k>>;   *)
(* wg holds the sum of the two wait groups.                                *)
(***************************************************************************)
MaxOverlapUnits == 3

callFrame == <<cfgVars, gatherPc, gatherRet, accFields, accErrors, crashed, rowVars, winVars,
               cycle>>

UnitsOf(k) == {u \in DOMAIN units : u[3] = k}

\* if !s.isInitialized
CallCheck(k) ==
  /\ ~crashed
  /\ calls[k].pc = "idle"
  /\ calls' = [calls EXCEPT ![k].pc = IF isInitialized THEN "launch" ELSE "init"]
  /\ UNCHANGED <<callFrame, Servers, selVars, discovery, wg, units>>

\* s.initQueries()
CallInit(k) ==
  /\ ~crashed
  /\ calls[k].pc = "init"
  /\ initQueries
  /\ calls' = [calls EXCEPT ![k].built = TRUE,
                            ![k].pc = IF LocalInstancesAutoDiscovery
                                      THEN "discover" ELSE "launch"]
  /\ UNCHANGED <<callFrame, Servers, discovery, wg, units>>

\* s.includeConnStringsForLocalInstances()
CallDiscover(k) ==
  /\ ~crashed
  /\ calls[k].pc = "discover"
  /\ \E lookup \in LookupOutcomes :
       /\ Servers' = includeConnStringsForLocalInstances(Servers, lookup)
       /\ discovery' = LookupResult(lookup)
  /\ calls' = [calls EXCEPT ![k].discovered = TRUE, ![k].pc = "launch"]
  /\ UNCHANGED <<callFrame, selVars, wg, units>>

\* the loop that starts one goroutine per server and query
CallLaunch(k) ==
  /\ ~crashed
  /\ calls[k].pc = "launch"
  /\ LET new == {<<i, n, k>> : i \in DOMAIN Servers, n \in DOMAIN queries}
     IN  /\ Cardinality(DOMAIN units) + Cardinality(new) <= MaxOverlapUnits
         /\ units' = [u \in DOMAIN units \cup new |->
                        IF u \in new THEN NewUnit(Servers[u[1]], queries[u[2]])
                        ELSE units[u]]
         /\ wg' = wg + Cardinality(new)
  /\ calls' = [calls EXCEPT ![k].pc = "waiting"]
  /\ UNCHANGED <<callFrame, Servers, selVars, discovery>>

\* wg.Wait() of call k returns; Gather returns nil.
CallReturn(k) ==
  /\ ~crashed
  /\ calls[k].pc = "waiting"
  /\ \A u \in UnitsOf(k) : units[u].pc = "done"
  /\ calls' = [calls EXCEPT ![k].pc = "returned"]
  /\ UNCHANGED <<callFrame, Servers, selVars, discovery, wg, units>>

InitOverlap ==
  /\ Servers \in Prefixes(ServerPool, 1)
  /\ QueryVersion = 2
  /\ AzureDB = FALSE
  /\ IncludeQuery = <<"NoSuchQuery", "Cpu">>
  /\ ExcludeQuery = <<>>
  /\ LocalInstancesAutoDiscovery \in BOOLEAN
  /\ TagKeys \in SeqsUpTo({"host"}, MaxTagKeys)
  /\ InitRun

NextOverlap ==
  \/ \E k \in GatherCalls : CallCheck(k)
  \/ \E k \in GatherCalls : CallInit(k)
  \/ \E k \in GatherCalls : CallDiscover(k)
  \/ \E k \in GatherCalls : CallLaunch(k)
  \/ \E k \in GatherCalls : CallReturn(k)
  \/ \E u \in DOMAIN units : UnitOpen(u)
  \/ \E u \in DOMAIN units : UnitQuery(u)
  \/ \E u \in DOMAIN units : UnitColumns(u)
  \/ \E u \in DOMAIN units : UnitEnd(u)
  \/ \E u \in DOMAIN units : UnitRow(u)
  \/ \E u \in DOMAIN units : UnitReport(u)
  \/ \E u \in DOMAIN units : UnitDone(u)
  \/ Crash

SpecOverlap == InitOverlap /\ [][NextOverlap]_vars

(***************************************************************************)
(* Specification of the row decoder alone: the selector build, then accRow *)
(* called on rows of any shape.                                            *)
(***************************************************************************)
InitRow ==
  /\ Servers = <<>>
  /\ QueryVersion = 2
  /\ AzureDB = FALSE
  /\ IncludeQuery = <<>>
  /\ ExcludeQuery = <<>>
  /\ LocalInstancesAutoDiscovery = FALSE
  /\ TagKeys \in SeqsUpTo(TagNames, MaxTagKeys)
  /\ InitRun

\* One call accRow(query, acc, row): rowArg is the row (query.OrderedColumns
\* and the values row.Scan yields), rowRet what the call returns.
DecodeRow ==
  /\ isInitialized
  /\ BagCardinality(accFields) < MaxRows
  /\ \E cols \in ColumnSets : \E vals \in RowsOf(cols) :
       /\ rowArg' = [cols |-> cols, vals |-> vals]
       /\ \/ /\ rowRet' = DriverErr("scan")
             /\ UNCHANGED accFields
          \/ LET r == accRow(cols, vals, tags)
             IN  IF r.outcome = "panic"
                 THEN /\ rowRet' = [kind |-> "panic"]
                      /\ UNCHANGED accFields
                 ELSE /\ rowRet' = NilErr
                      /\ accFields' = AddFields(accFields, MetricOf(r))
  /\ UNCHANGED <<Servers, cfgVars, selVars, gatherPc, gatherRet, wg, units,
                 accErrors, crashed, obsVars, winVars>>

NextRow == BuildQuerySet \/ DecodeRow

SpecRow == InitRow /\ [][NextRow]_vars

(***************************************************************************)
(* The Windows-services input plugin (package win_services): the filter    *)
(* built from service_names, and Gather over the services the service      *)
(* manager lists.  Gather runs in one goroutine, start to end.             *)
(***************************************************************************)
\* The names the service manager may list, in its order, and the lists
\* service_names may hold: none, plain names, a pattern, and a pattern that
\* does not compile.
ServicePool == <<"a", "ab", "b">>

ServiceNameLists == {<<>>, <<"a">>, <<"b">>, <<"a*">>, <<"b", "a">>, <<"a", "[">>}

\* The characters of the names and patterns of the model.
Chars(str) ==
  CASE str = "a"  -> <<"a">>
    [] str = "ab" -> <<"a", "b">>
    [] str = "b"  -> <<"b">>
    [] str = "a*" -> <<"a", "*">>
    [] str = "*"  -> <<"*">>
    [] str = "["  -> <<"[">>

\* A glob pattern against a name: * stands for any run of characters, any
\* other character of the model for itself.
RECURSIVE GlobMatch(_, _)
GlobMatch(p, str) ==
  IF p = <<>> THEN str = <<>>
  ELSE IF Head(p) = "*"
       THEN GlobMatch(Tail(p), str) \/ (str # <<>> /\ GlobMatch(p, Tail(str)))
       ELSE str # <<>> /\ Head(str) = Head(p) /\ GlobMatch(Tail(p), Tail(str))

\* filter.Compile: an error, and no filter, for a pattern with an unclosed
\* bracket; else a filter that holds the patterns.
Compile(names) ==
  IF \E i \in DOMAIN names : "[" \in ListToSet(Chars(names[i]))
  THEN [filter |-> NilFilter, err |-> TRUE]
  ELSE [filter |-> [nil |-> FALSE, patterns |-> ListToSet(names)], err |-> FALSE]

\* Filter.Match: the name matches one of the patterns.
Match(f, name) ==
  \E p \in f.patterns : GlobMatch(Chars(p), Chars(name))

\* Variant: an empty service_names is compiled as it is.
initFilterKeepsEmpty(names) ==
  LET c == Compile(names)
  IN  [ServiceNames |-> names, filter |-> c.filter, err |-> c.err]

\* initFilter: an empty service_names becomes ["*"], then the list is
\* compiled.
initFilter(names) ==
  LET list == IF Len(names) = 0 THEN <<"*">> ELSE names
      c    == Compile(list)
  IN  [ServiceNames |-> list, filter |-> c.filter, err |-> c.err]

\* listServices: the names of the listing that the filter matches, in the
\* order of the listing.
listServices(listing, f) ==
  IF listing.err THEN [err |-> TRUE, services |-> <<>>]
  ELSE [err |-> FALSE,
        services |-> SelectSeq(listing.names, LAMBDA n : Match(f, n))]

\* One call on the service manager or on a service, and whether it
\* succeeded.
Ev(op, arg, ok) == [op |-> op, arg |-> arg, ok |-> ok]

\* What the service manager answers for one service: which call fails, if
\* any, whether the failure is a permission error, and the service's data.
ServiceOutcomes ==
  {o \in [fail : {"none", "open", "query", "config"}, permission : BOOLEAN,
          DisplayName : {"", "Disp"}, State : {4}, StartUpMode : {2}] :
     /\ o.fail # "open" => ~o.permission
     /\ o.fail # "none" => o.DisplayName = ""}

\* Variant: the return after a failed Query leaves the handle open.
collectServiceInfoLeaksOnQueryErr(serviceName, o) ==
  LET open   == Ev("OpenService", serviceName, o.fail # "open")
      query  == Ev("Query", serviceName, o.fail # "query")
      config == Ev("Config", serviceName, o.fail # "config")
      close  == Ev("Close", serviceName, TRUE)
  IN  CASE o.fail = "open" ->
             [err |-> "could not open service", trace |-> <<open>>]
        [] o.fail = "query" ->
             [err |-> "could not query service", trace |-> <<open, query>>]
        [] o.fail = "config" ->
             [err |-> "could not get config of service",
              trace |-> <<open, query, config, close>>]
        [] OTHER ->
             [err |-> "nil", trace |-> <<open, query, config, close>>,
              info |-> [ServiceName |-> serviceName, DisplayName |-> o.DisplayName,
                        StartUpMode |-> o.StartUpMode, State |-> o.State]]

\* collectServiceInfo: OpenService, then Query and Config on the handle,
\* which the deferred Close releases on every return after the open.
collectServiceInfo(serviceName, o) ==
  LET open   == Ev("OpenService", serviceName, o.fail # "open")
      query  == Ev("Query", serviceName, o.fail # "query")
      config == Ev("Config", serviceName, o.fail # "config")
      close  == Ev("Close", serviceName, TRUE)
  IN  CASE o.fail = "open" ->
             [err |-> "could not open service", trace |-> <<open>>]
        [] o.fail = "query" ->
             [err |-> "could not query service", trace |-> <<open, query, close>>]
        [] o.fail = "config" ->
             [err |-> "could not get config of service",
              trace |-> <<open, query, config, close>>]
        [] OTHER ->
             [err |-> "nil", trace |-> <<open, query, config, close>>,
              info |-> [ServiceName |-> serviceName, DisplayName |-> o.DisplayName,
                        StartUpMode |-> o.StartUpMode, State |-> o.State]]

\* Variant: the tag display_name is set whatever the display name is.
ServiceMetricAlwaysDisplayName(service) ==
  [measurement |-> "win_services",
   tags   |-> [k \in {"service_name", "display_name"} |->
                 IF k = "service_name" THEN service.ServiceName
                 ELSE service.DisplayName],
   fields |-> [k \in {"state", "startup_mode"} |->
                 IF k = "state" THEN service.State ELSE service.StartUpMode]]

\* The metric Gather adds for one service.
ServiceMetric(service) ==
  LET tagKeys == {"service_name"}
                   \cup (IF service.DisplayName # "" THEN {"display_name"} ELSE {})
  IN  [measurement |-> "win_services",
       tags   |-> [k \in tagKeys |-> IF k = "service_name" THEN service.ServiceName
                                     ELSE service.DisplayName],
       fields |-> [k \in {"state", "startup_mode"} |->
                     IF k = "state" THEN service.State ELSE service.StartUpMode]]

\* Variant: the loop ends at the first service that cannot be collected.
RECURSIVE CollectAllStopsAtError(_, _, _)
CollectAllStopsAtError(serviceNames, outcome, i) ==
  IF i > Len(serviceNames)
  THEN [metrics |-> <<>>, errors |-> <<>>, log |-> <<>>, trace |-> <<>>]
  ELSE LET srvName == serviceNames[i]
           r       == collectServiceInfo(srvName, outcome[srvName])
           rest    == CollectAllStopsAtError(serviceNames, outcome, i + 1)
       IN  IF r.err # "nil"
           THEN [metrics |-> <<>>,
                 errors  |-> <<>>,
                 log     |-> <<[level   |-> IF outcome[srvName].permission
                                            THEN "debug" ELSE "error",
                                service |-> srvName, message |-> r.err]>>,
                 trace   |-> r.trace]
           ELSE [metrics |-> <<ServiceMetric(r.info)>> \o rest.metrics,
                 errors  |-> rest.errors,
                 log     |-> rest.log,
                 trace   |-> r.trace \o rest.trace]

\* The loop of Gather over serviceNames from position i on: a service that
\* cannot be collected is logged, at debug level for a permission error,
\* and skipped.
RECURSIVE CollectAll(_, _, _)
CollectAll(serviceNames, outcome, i) ==
  IF i > Len(serviceNames)
  THEN [metrics |-> <<>>, errors |-> <<>>, log |-> <<>>, trace |-> <<>>]
  ELSE LET srvName == serviceNames[i]
           r       == collectServiceInfo(srvName, outcome[srvName])
           rest    == CollectAll(serviceNames, outcome, i + 1)
       IN  IF r.err # "nil"
           THEN [metrics |-> rest.metrics,
                 errors  |-> rest.errors,
                 log     |-> <<[level   |-> IF outcome[srvName].permission
                                            THEN "debug" ELSE "error",
                                service |-> srvName, message |-> r.err]>> \o rest.log,
                 trace   |-> r.trace \o rest.trace]
           ELSE [metrics |-> <<ServiceMetric(r.info)>> \o rest.metrics,
                 errors  |-> rest.errors,
                 log     |-> rest.log,
                 trace   |-> r.trace \o rest.trace]

\* Variant: the return after a failed listing leaves the service manager
\* connected.
gatherServicesLeaksOnListErr(f, env) ==
  LET none == [listed |-> <<>>, gathered |-> <<>>, metrics |-> <<>>, errors |-> <<>>,
               log |-> <<>>]
  IN  IF env.connectErr
      THEN [ret |-> "Could not open service manager", trace |-> <<Ev("Connect", "", FALSE)>>]
             @@ none
      ELSE LET l == listServices([err |-> env.listErr, names |-> env.names], f)
           IN  IF l.err
               THEN [ret |-> "Could not list services",
                     trace |-> <<Ev("Connect", "", TRUE), Ev("ListServices", "", FALSE)>>]
                      @@ none
               ELSE LET c == CollectAll(l.services, env.outcome, 1)
                    IN  [ret |-> "nil", listed |-> env.names, gathered |-> l.services,
                         metrics |-> c.metrics, errors |-> c.errors, log |-> c.log,
                         trace |-> <<Ev("Connect", "", TRUE), Ev("ListServices", "", TRUE)>>
                                     \o c.trace \o <<Ev("Disconnect", "", TRUE)>>]

\* Variant: a failed listing is taken for an empty one.
gatherServicesIgnoresListErr(f, env) ==
  LET none == [listed |-> <<>>, gathered |-> <<>>, metrics |-> <<>>, errors |-> <<>>,
               log |-> <<>>]
  IN  IF env.connectErr
      THEN [ret |-> "Could not open service manager", trace |-> <<Ev("Connect", "", FALSE)>>]
             @@ none
      ELSE LET l == listServices([err |-> env.listErr, names |-> env.names], f)
               c == CollectAll(l.services, env.outcome, 1)
           IN  [ret |-> "nil", listed |-> env.names, gathered |-> l.services,
                metrics |-> c.metrics, errors |-> c.errors, log |-> c.log,
                trace |-> <<Ev("Connect", "", TRUE), Ev("ListServices", "", ~l.err)>>
                            \o c.trace \o <<Ev("Disconnect", "", TRUE)>>]

\* Gather after the filter is there: Connect, listServices, the loop, and
\* the deferred Disconnect on every return after the connect.
gatherServices(f, env) ==
  LET none == [listed |-> <<>>, gathered |-> <<>>, metrics |-> <<>>, errors |-> <<>>,
               log |-> <<>>]
  IN  IF env.connectErr
      THEN [ret |-> "Could not open service manager", trace |-> <<Ev("Connect", "", FALSE)>>]
             @@ none
      ELSE LET l == listServices([err |-> env.listErr, names |-> env.names], f)
           IN  IF l.err
               THEN [ret |-> "Could not list services",
                     trace |-> <<Ev("Connect", "", TRUE), Ev("ListServices", "", FALSE),
                                 Ev("Disconnect", "", TRUE)>>] @@ none
               ELSE LET c == CollectAll(l.services, env.outcome, 1)
                    IN  [ret |-> "nil", listed |-> env.names, gathered |-> l.services,
                         metrics |-> c.metrics, errors |-> c.errors, log |-> c.log,
                         trace |-> <<Ev("Connect", "", TRUE), Ev("ListServices", "", TRUE)>>
                                     \o c.trace \o <<Ev("Disconnect", "", TRUE)>>]

\* What the service manager answers during one Gather call with the filter
\* f: Connect fails, or ListServices fails, or the listing and an answer
\* for each service Gather asks about, those the filter matches.
WinEnvs(f) ==
  {[connectErr |-> TRUE, listErr |-> FALSE, names |-> <<>>, outcome |-> <<>>],
   [connectErr |-> FALSE, listErr |-> TRUE, names |-> <<>>, outcome |-> <<>>]}
    \cup UNION {[connectErr : {FALSE}, listErr : {FALSE}, names : {names},
                 outcome : [{n \in ListToSet(names) : Match(f, n)} -> ServiceOutcomes]] :
                  names \in Prefixes(ServicePool, MaxServices)}

winFrame == <<Servers, cfgVars, selVars, runVars, rowVars, obsVars>>

\* One call of WinServices.Gather, with the accumulator and the log of
\* this call.
WinGather ==
  LET init == IF svcFilter = NilFilter THEN initFilter(ServiceNames)
              ELSE [ServiceNames |-> ServiceNames, filter |-> svcFilter, err |-> FALSE]
  IN  /\ ServiceNames' = init.ServiceNames
      /\ svcFilter' = init.filter
      /\ IF init.err
         THEN /\ winRet' = "compile error"
              /\ winListed' = <<>> /\ winGathered' = <<>>
              /\ winAcc' = <<>> /\ winLog' = <<>>
              /\ winTrace' = <<>>
              /\ winErrors' = <<>>
              /\ winEnv' = NoEnv
         ELSE \E env \in WinEnvs(init.filter) :
                LET r == gatherServices(init.filter, env)
                IN  /\ winRet' = r.ret
                    /\ winListed' = r.listed
                    /\ winGathered' = r.gathered
                    /\ winAcc' = r.metrics
                    /\ winLog' = r.log
                    /\ winTrace' = r.trace
                    /\ winErrors' = r.errors
                    /\ winEnv' = env
      /\ UNCHANGED winFrame

\* service_names is rewritten between two Gather calls.
WinReconfigure ==
  /\ winRet # "none"
  /\ ServiceNames' \in ServiceNameLists \ {ServiceNames}
  /\ UNCHANGED <<svcFilter, winRet, winListed, winGathered, winAcc, winLog, winTrace,
                 winErrors, winEnv, winFrame>>

InitWin ==
  /\ ServiceNames \in ServiceNameLists
  /\ InitWinRun
  /\ Servers = <<>>
  /\ QueryVersion = 2
  /\ AzureDB = FALSE
  /\ IncludeQuery = <<>>
  /\ ExcludeQuery = <<>>
  /\ LocalInstancesAutoDiscovery = FALSE
  /\ TagKeys = <<>>
  /\ InitSqlRun

NextWin == WinGather \/ WinReconfigure

SpecWin == InitWin /\ [][NextWin]_vars

(***************************************************************************)
(* Claims about the query selection (specification SpecSel).               *)
(***************************************************************************)
Catalog == ActiveCatalog(QueryVersion, AzureDB)

\* C1: with a non-empty include-list I and a non-empty exclude-list E, the
\* QuerySet built by initQueries has exactly the names (catalog \cap I) \ E.
C1_IncludeMinusExclude ==
  (isInitialized /\ IncludeQuery # <<>> /\ ExcludeQuery # <<>>)
    => DOMAIN queries =
         (DOMAIN Catalog \cap ListToSet(IncludeQuery)) \ ListToSet(ExcludeQuery)

\* C2: with an empty include-list and an empty exclude-list, initQueries
\* selects every entry of the catalog, for either version and with or
\* without the extended-metrics queries.
C2_EmptyListsSelectAll ==
  (isInitialized /\ IncludeQuery = <<>> /\ ExcludeQuery = <<>>)
    => /\ DOMAIN queries = DOMAIN Catalog
       /\ \A n \in DOMAIN Catalog : queries[n].Script = Catalog[n]

C2_Witness ==
  /\ isInitialized /\ IncludeQuery = <<>> /\ ExcludeQuery = <<>>
  /\ AzureDB /\ QueryVersion = 2
  /\ Cardinality(DOMAIN queries) = 26

\* C3: for every include-list and every non-empty exclude-list, no name of
\* the exclude-list is a key of the QuerySet after initQueries.
C3_ExclusionWins ==
  (isInitialized /\ ExcludeQuery # <<>>)
    => \A i \in DOMAIN ExcludeQuery : ExcludeQuery[i] \notin DOMAIN queries

C3_Witness ==
  /\ isInitialized
  /\ IncludeQuery = <<"Cpu">> /\ ExcludeQuery = <<"Cpu">>
  /\ QueryVersion = 2
  /\ "Cpu" \notin DOMAIN queries
  /\ "PerformanceCounters" \in DOMAIN queries

(***************************************************************************)
(* Claims about one Gather cycle (specification Spec).                     *)
(***************************************************************************)
\* The goroutine of u has left gatherServer, by a return or by a panic.
LeftGatherServer(u) == units[u].pc \in {"report", "exit", "done", "panicking", "panicked"}

\* The goroutine of u has ended.
Finished(u) == units[u].pc \in {"done", "panicked"}

\* gatherServer failed for u: it returned an error or it panicked.
Failed(u) == units[u].err # NilErr \/ units[u].pc \in {"panicking", "panicked"}

\* C4: a cycle over N servers and M selected queries launches exactly N x M
\* units, one per (server, query) pair, and no unit is cut short by the
\* failure of another unit: a unit that has not finished can always go on
\* delivering its records.
C4_UnitsIndependent ==
  gatherPc # "idle"
    => /\ Cardinality(DOMAIN units) = Len(Servers) * Cardinality(DOMAIN queries)
       /\ \A i \in DOMAIN Servers : \A n \in DOMAIN queries :
            /\ <<i, n>> \in DOMAIN units
            /\ units[<<i, n>>].serv = Servers[i]
            /\ units[<<i, n>>].query.Script = queries[n].Script
       /\ \A u \in DOMAIN units : ~Finished(u) => ~crashed

\* C5: a Gather cycle never fails as a whole: whatever the outcomes of the
\* units, the process is not brought down and Gather returns nil.
C5_GatherNeverFails ==
  /\ ~crashed
  /\ gatherPc = "returned" => gatherRet = "nil"

\* C6: a cycle is over only after every unit has finished and has handed
\* its outcome to the accumulator: Gather does not return before that, and
\* no unit is cancelled because another unit failed.
C6_ReturnsAfterAllUnits ==
  (gatherPc = "returned" \/ crashed)
    => \A u \in DOMAIN units : units[u].pc = "done" /\ units[u].addErrors = 1

\* C7: a successful connection-open is matched by exactly one release on
\* every exit path of gatherServer, and when Gather returns no connection
\* of the cycle is still open.
C7_ConnectionsReleased ==
  \A u \in DOMAIN units :
    /\ units[u].closes <= units[u].opens
    /\ units[u].opens <= 1
    /\ LeftGatherServer(u) => units[u].closes = units[u].opens
    /\ gatherPc = "returned" => units[u].closes = units[u].opens

C7_Witness ==
  /\ gatherPc = "returned"
  /\ \E u, v \in DOMAIN units :
       /\ units[u].err = DriverErr("scan") /\ units[u].opens = 1 /\ units[u].closes = 1
       /\ units[v].err = DriverErr("query") /\ units[v].opens = 1 /\ units[v].closes = 1

\* C8: when a cycle is over, the number of collected errors equals the
\* number of failed units.
C8_OneErrorPerFailedUnit ==
  (gatherPc = "returned" \/ crashed)
    => BagCardinality(accErrors) = Cardinality({u \in DOMAIN units : Failed(u)})

\* C9: every collected error carries the server target and the query name
\* of the unit that produced it.
C9_ErrorsTagged ==
  \A e \in BagToSet(accErrors) :
    /\ {"server", "query"} \subseteq DOMAIN e
    /\ \E u \in DOMAIN units : e.server = units[u].serv /\ e.query = u[2]

(***************************************************************************)
(* Claims about the row decoder (specification SpecRow).                   *)
(***************************************************************************)
\* C10: decoding a row that has no column named measurement returns a
\* decode error and delivers no record to the accumulator.
C10_MissingMeasurementFails ==
  [][(isInitialized /\ "measurement" \notin ListToSet(rowArg'.cols))
       => (rowRet' # NilErr /\ accFields' = accFields)]_vars

\* The columns of the row rowArg that are fields.
FieldColumns(row, tagKeys) ==
  {i \in DOMAIN row.cols : row.cols[i] # "measurement" /\ row.cols[i] \notin tagKeys}

Panicked(u) == units[u].pc \in {"panicking", "panicked"}

\* C11: a measurement or tag value that is not text makes the decoding of
\* the row fail with an error of the owning unit only: no goroutine panics,
\* the process goes on and the other units run to completion.
C11_MistypedValueFailsUnitOnly ==
  /\ \A u \in DOMAIN units : ~Panicked(u)
  /\ ~crashed

RECURSIVE SumDelivered(_)
SumDelivered(U) ==
  IF U = {} THEN 0
  ELSE LET u == CHOOSE x \in U : TRUE
       IN  units[u].delivered + SumDelivered(U \ {u})

\* The row of u that failed to scan or to decode, if any, counts as fetched.
FailedRows(u) == IF units[u].err = DriverErr("scan") \/ Panicked(u) THEN 1 ELSE 0

OpenFailed(u) == units[u].openCalls > 0 /\ units[u].opens = 0

\* The goroutine of u has handed the result of gatherServer to AddError.
Reported(u) == units[u].pc \in {"exit", "done"}

\* C14: a unit whose sql.Open fails never executes its query and delivers
\* no record, and what it reports is one connection error; with one server
\* and one query the cycle holds no record and that one error, and the
\* process goes on.
C14_OpenFailureIsOneError ==
  /\ \A u \in DOMAIN units :
       OpenFailed(u) =>
         /\ units[u].queryCalls = 0 /\ units[u].rowsOpens = 0
         /\ units[u].fetched = 0 /\ units[u].delivered = 0
         /\ units[u].err = DriverErr("open")
         /\ units[u].addErrors = (IF Reported(u) THEN 1 ELSE 0)
  /\ CopiesIn(DriverErr("open"), accErrors)
       = Cardinality({u \in DOMAIN units : OpenFailed(u) /\ Reported(u)})
  /\ (Cardinality(DOMAIN units) = 1 /\ \A u \in DOMAIN units : OpenFailed(u))
       => /\ ~crashed
          /\ accFields = EmptyBag
          /\ gatherPc = "returned" => accErrors = SetToBag({DriverErr("open")})

C14_Witness ==
  /\ gatherPc = "returned"
  /\ Servers = <<"s1">>
  /\ DOMAIN units = {<<1, "Cpu">>}
  /\ OpenFailed(<<1, "Cpu">>)
  /\ accFields = EmptyBag
  /\ accErrors = SetToBag({DriverErr("open")})

\* The goroutine of u stopped in the middle of its rows: a row failed to
\* scan or to decode, or rows.Err() was set after the last row.
FailedMidStream(u) ==
  \/ units[u].err \in {DriverErr("scan"), DriverErr("cursor")}
  \/ Panicked(u)

\* C15: a unit that fails in the middle of its rows has delivered the
\* records of the rows before the failure and no other, these records stay
\* in the accumulator, and the failure is reported as the unit's error.
C15_MidStreamFailureReported ==
  /\ BagCardinality(accFields) = SumDelivered(DOMAIN units)
  /\ \A u \in DOMAIN units :
       (FailedMidStream(u) /\ LeftGatherServer(u)) =>
         /\ units[u].delivered = units[u].fetched - FailedRows(u)
         /\ units[u].pc \in {"report", "exit", "done"}
         /\ units[u].err # NilErr
         /\ Reported(u) => units[u].err \in BagToSet(accErrors)

\* C20: a unit calls sql.Open at most once and conn.Query at most once in
\* a cycle, whether it fails or not.
C20_OneAttemptPerUnit ==
  \A u \in DOMAIN units :
    /\ units[u].openCalls <= 1
    /\ units[u].queryCalls <= 1
    /\ units[u].pc # "open" => units[u].openCalls = 1
    /\ units[u].queryCalls <= units[u].opens

C20_Witness ==
  /\ gatherPc = "returned"
  /\ \E u \in DOMAIN units :
       /\ units[u].err = DriverErr("query")
       /\ units[u].openCalls = 1 /\ units[u].queryCalls = 1
       /\ units[u].pc = "done"

\* C19: while the goroutines of a cycle run, none of them writes s.queries,
\* s.tags, s.includeQueries or s.excludeQueries: the column names a unit
\* reads go to its own copy of the Query, and the four structures are at
\* Gather's return what they were at the launch.
C19_UnitsLeaveSelectorAlone ==
  [][gatherPc = "waiting"
       => /\ UNCHANGED <<queries, tags, includeQueries, excludeQueries>>
          /\ \A n \in DOMAIN queries' : queries'[n].OrderedColumns = <<>>]_vars

C19_Witness ==
  /\ gatherPc = "returned"
  /\ \E u \in DOMAIN units :
       /\ units[u].query.OrderedColumns = ServerColumns
       /\ units[u].delivered = 1
       /\ queries[u[2]].OrderedColumns = <<>>

(***************************************************************************)
(* Claims about several Gather cycles (specification SpecCycles).          *)
(***************************************************************************)
\* The step is the launch of the first Gather call.
FirstLaunch == cycle = 0 /\ cycle' = 1

\* C16: the query set and the include, exclude and tag sets are built in
\* the first Gather call, before its goroutines are started from them, and
\* no later step changes them, whatever the lists and the version have
\* become in between.
C16_SelectorBuiltOnce ==
  [][/\ FirstLaunch =>
          /\ units = NoUnits
          /\ includeQueries' = ListToSet(IncludeQuery)
          /\ excludeQueries' = ListToSet(ExcludeQuery)
          /\ tags' = ListToSet(TagKeys)
          /\ queries' = buildQueries(QueryVersion, AzureDB,
                                     ListToSet(IncludeQuery), ListToSet(ExcludeQuery))
          /\ \A u \in DOMAIN units' : u[2] \in DOMAIN queries'
     /\ ~FirstLaunch =>
          UNCHANGED <<queries, includeQueries, excludeQueries, tags>>]_vars

C16_Witness ==
  /\ cycle = 2
  /\ gatherPc = "returned"
  /\ QueryVersion = 1
  /\ IncludeQuery = <<"NoSuchQuery">>
  /\ TagKeys = <<"host">>
  /\ DOMAIN queries = {"Cpu"}
  /\ queries["Cpu"].Script = CatalogV2["Cpu"]
  /\ includeQueries = {"NoSuchQuery", "Cpu"}
  /\ tags = {}
  /\ \E u \in DOMAIN units : units[u].delivered = 1

\* The connection strings a discovery that finds the instances appends.
Discovered(instances) ==
  [i \in DOMAIN instances |-> connString(Hostname, instances[i])]

\* C17: the server list grows by discovery at most once, in the first
\* Gather call and only if auto-discovery is configured then: it becomes
\* the configured list followed by one copy of the discovered servers, and
\* no later step changes it.
C17_ServersExtendedOnce ==
  [][/\ (FirstLaunch /\ LocalInstancesAutoDiscovery) =>
          \E instances \in SeqsUpTo(InstanceNames, MaxInstances) :
            Servers' = Servers \o Discovered(instances)
     /\ ~(FirstLaunch /\ LocalInstancesAutoDiscovery) => Servers' = Servers]_vars

C17_Witness ==
  /\ cycle = 2
  /\ gatherPc = "returned"
  /\ LocalInstancesAutoDiscovery
  /\ discovery = "ok"
  /\ Servers = <<"Server=HOST\\SQLEXPRESS;Integrated Security=SSPI;">>
  /\ \E u \in DOMAIN units : units[u].pc = "done"

\* C18: when the instance lookup or the host name lookup fails, the server
\* list stays as configured, nothing is reported to the accumulator for
\* it, and the call goes on to launch its units over the configured
\* servers.
C18_DiscoveryFailureIgnored ==
  [][(discovery = "none" /\ discovery' \in {"instancesErr", "hostnameErr"})
       => /\ Servers' = Servers
          /\ accErrors' = accErrors /\ accErrors' = EmptyBag
          /\ ~crashed'
          /\ gatherPc' = "waiting"
          /\ DOMAIN units' = UnitKeys(Servers, queries')]_vars

C18_Witness ==
  /\ gatherPc = "returned"
  /\ discovery = "hostnameErr"
  /\ Servers = <<"s1">>
  /\ accErrors = EmptyBag
  /\ BagCardinality(accFields) = 1

\* C21: a selection that leaves the query set empty is no error: a Gather
\* call then starts no goroutine, opens no connection, hands neither a
\* record nor an error to the accumulator, and can return at once.
C21_EmptySelectionIsValid ==
  (isInitialized /\ DOMAIN queries = {} /\ gatherPc # "idle")
    => /\ units = NoUnits /\ wg = 0
       /\ accFields = EmptyBag /\ accErrors = EmptyBag
       /\ ~crashed
       /\ gatherPc = "waiting" => ENABLED GatherReturn
       /\ gatherPc = "returned" => gatherRet = "nil"

C21_Witness ==
  /\ gatherPc = "returned" /\ gatherRet = "nil"
  /\ cycle = 1
  /\ Servers = <<"s1", "s2">>
  /\ IncludeQuery = <<"NoSuchQuery">>
  /\ DOMAIN queries = {}
  /\ units = NoUnits /\ accFields = EmptyBag /\ accErrors = EmptyBag

(***************************************************************************)
(* More claims about the query selection (specification SpecSel).          *)
(***************************************************************************)
\* C22: with an empty include-list and a non-empty exclude-list E the
\* query set is the catalog without the names of E; a name of E that is
\* not in the catalog changes nothing.
C22_ExcludeOnly ==
  (isInitialized /\ IncludeQuery = <<>> /\ ExcludeQuery # <<>>)
    => /\ DOMAIN queries = DOMAIN Catalog \ ListToSet(ExcludeQuery)
       /\ \A n \in DOMAIN queries : queries[n].Script = Catalog[n]

C22_Witness ==
  /\ isInitialized
  /\ IncludeQuery = <<>> /\ ExcludeQuery = <<"Cpu", "NoSuchQuery">>
  /\ QueryVersion = 2 /\ ~AzureDB
  /\ DOMAIN queries = CatalogV2Names \ {"Cpu"}

\* C24: with a non-empty include-list I and an empty exclude-list the
\* query set is the part of the catalog named in I: a name of I outside
\* the catalog is ignored and a catalog name outside I is not selected.
C24_IncludeOnly ==
  (isInitialized /\ IncludeQuery # <<>> /\ ExcludeQuery = <<>>)
    => /\ DOMAIN queries = DOMAIN Catalog \cap ListToSet(IncludeQuery)
       /\ \A n \in DOMAIN queries : queries[n].Script = Catalog[n]

C24_Witness ==
  /\ isInitialized
  /\ IncludeQuery = <<"NoSuchQuery", "Cpu">> /\ ExcludeQuery = <<>>
  /\ QueryVersion = 2
  /\ DOMAIN queries = {"Cpu"}

\* The scripts of a catalog.
Scripts(cat) == {cat[n] : n \in DOMAIN cat}

\* C26: the query set takes its entries, the extended-metrics ones apart,
\* from one version catalog only: the version 2 names with their version 2
\* scripts when query_version is 2, the version 1 names with their version
\* 1 scripts for any other value; it holds no name outside the active
\* catalog and no script of the other catalog.
C26_OneVersionCatalog ==
  isInitialized =>
    LET mine  == IF QueryVersion = 2 THEN CatalogV2 ELSE CatalogV1
        other == IF QueryVersion = 2 THEN CatalogV1 ELSE CatalogV2
    IN  /\ DOMAIN queries \subseteq DOMAIN Catalog
        /\ \A n \in DOMAIN queries \ DOMAIN AzureCatalog :
             /\ n \in DOMAIN mine
             /\ queries[n].Script = mine[n]
             /\ queries[n].Script \notin Scripts(other)

C26_Witness ==
  /\ isInitialized
  /\ QueryVersion = 0
  /\ IncludeQuery = <<"CPUHistory", "Cpu">> /\ ExcludeQuery = <<>>
  /\ DOMAIN queries = {"CPUHistory"}
  /\ queries["CPUHistory"].Script = "sqlCPUHistory"

\* C27: with azuredb set, each of AzureDBResourceStats and
\* AzureDBResourceGovernance is in the query set, with its script, exactly
\* when the filter of the catalog entries accepts it, under any
\* query_version; with azuredb not set neither is ever in the query set.
C27_ExtendedMetricsToggle ==
  isInitialized =>
    \A n \in DOMAIN AzureCatalog :
      IF AzureDB
      THEN /\ n \in DOMAIN queries
                <=> filter(n, ListToSet(IncludeQuery), ListToSet(ExcludeQuery))
           /\ n \in DOMAIN queries => queries[n].Script = AzureCatalog[n]
      ELSE n \notin DOMAIN queries

C27_Witness ==
  /\ isInitialized
  /\ ~AzureDB
  /\ IncludeQuery = <<"AzureDBResourceStats">> /\ ExcludeQuery = <<>>
  /\ DOMAIN queries = {}

ValueOf(row, c) == row.vals[CHOOSE i \in DOMAIN row.cols : row.cols[i] = c]

SomeUnitRunning == \E u \in DOMAIN units : units[u].pc \notin {"done", "panicked"}

\* C25: when two Gather calls overlap before the initialization is over,
\* initQueries runs once and the discovery runs once, so that the
\* discovered servers are appended once, and neither runs while a
\* goroutine of either call is running.
C25_InitOnceUnderOverlap ==
  [][/\ (\E k \in GatherCalls : calls'[k].built /\ ~calls[k].built)
          => /\ \A k \in GatherCalls : ~calls[k].built
             /\ ~SomeUnitRunning
     /\ (\E k \in GatherCalls : calls'[k].discovered /\ ~calls[k].discovered)
          => \A k \in GatherCalls : ~calls[k].discovered]_vars

(***************************************************************************)
(* A claim about the end of a Gather cycle (specification Spec).           *)
(***************************************************************************)
\* Some step of the goroutine of u.
UnitStep(u) ==
  \/ UnitOpen(u) \/ UnitQuery(u) \/ UnitColumns(u) \/ UnitEnd(u) \/ UnitRow(u)
  \/ UnitReport(u) \/ UnitDone(u)

\* C29: once every goroutine of the cycle has ended, Gather can return;
\* while one has not, Gather cannot return, and every goroutine that has
\* not ended can take its next step whatever the others do.
C29_OnlyReturnWaitsForUnits ==
  /\ (gatherPc = "waiting" /\ \A u \in DOMAIN units : Finished(u))
       => ENABLED GatherReturn
  /\ (\E u \in DOMAIN units : ~Finished(u)) => ~ENABLED GatherReturn
  /\ \A u \in DOMAIN units : ~Finished(u) => ENABLED UnitStep(u)

(***************************************************************************)
(* Claims about the Windows-services plugin (specification SpecWin).       *)
(***************************************************************************)
\* The names of the model that each configured name or pattern stands for.
Denotes(pattern, name) ==
  \/ pattern = name
  \/ pattern = "*"
  \/ pattern = "a*" /\ name \in {"a", "ab"}

\* C23: with an empty service_names a Gather call gathers every service
\* the service manager lists, with a non-empty one exactly the listed
\* services that one of the names or patterns matches; the filter is built
\* by the first Gather call that can build it and later calls use that
\* filter, whatever service_names has become.
C23_FilterSelectsAndIsReused ==
  [][/\ svcFilter # NilFilter => svcFilter' = svcFilter
     /\ winRet' = "nil" =>
          LET all   == svcFilter = NilFilter /\ ServiceNames = <<>>
              pats  == IF svcFilter = NilFilter THEN ListToSet(ServiceNames)
                       ELSE svcFilter.patterns
              picked(n) == all \/ \E p \in pats : Denotes(p, n)
          IN  winGathered' = SelectSeq(winListed', picked)]_vars

C23_Witness ==
  /\ winRet = "nil"
  /\ ServiceNames = <<"a*">>
  /\ svcFilter = [nil |-> FALSE, patterns |-> {"a"}]
  /\ winListed = <<"a", "ab">>
  /\ winGathered = <<"a">>
  /\ Len(winAcc) = 1

(***************************************************************************)
(* A last claim about one Gather cycle (specification Spec).               *)
(***************************************************************************)
\* gatherServer has returned for u after sql.Open and conn.Query succeeded,
\* with no row fetched and with neither rows.Columns() nor the cursor
\* failing: the result of the query was empty.
ZeroRows(u) ==
  /\ units[u].pc \in {"report", "exit", "done"}
  /\ units[u].opens = 1 /\ units[u].rowsOpens = 1
  /\ units[u].fetched = 0
  /\ units[u].err \notin {DriverErr("columns"), DriverErr("cursor")}

\* C31: a unit whose connection opens and whose query succeeds with zero
\* rows delivers no record and reports no error, and it closes its cursor
\* and its connection: what the accumulator holds comes from other units.
C31_ZeroRowsIsQuiet ==
  \A u \in DOMAIN units :
    ZeroRows(u) =>
      /\ units[u].delivered = 0
      /\ units[u].err = NilErr
      /\ units[u].rowsCloses = 1 /\ units[u].closes = 1
      /\ BagCardinality(accFields) = SumDelivered(DOMAIN units \ {u})
      /\ BagCardinality(accErrors)
           <= Cardinality({v \in DOMAIN units \ {u} : Reported(v)})

C31_Witness ==
  /\ gatherPc = "returned"
  /\ DOMAIN units = {<<1, "Cpu">>}
  /\ ZeroRows(<<1, "Cpu">>)
  /\ units[<<1, "Cpu">>].addErrors = 1
  /\ units[<<1, "Cpu">>].rowsCloses = 1 /\ units[<<1, "Cpu">>].closes = 1
  /\ accFields = EmptyBag
  /\ accErrors = EmptyBag

(***************************************************************************)
(* More claims about the Windows-services plugin (specification SpecWin).  *)
(***************************************************************************)
\* The last Gather call got as far as the loop over the services.
ReachedLoop == winRet # "none" /\ ~winEnv.connectErr /\ ~winEnv.listErr /\ winEnv.names # <<>>

\* OpenService, Query or Config failed for the service n.
FailedService(n) == winEnv.outcome[n].fail # "none"

\* The calls of op made for the service n.
CallsOf(op, n) == {i \in DOMAIN winTrace : winTrace[i].op = op /\ winTrace[i].arg = n}

\* The metrics added with the tag service_name = n.
MetricsFor(n) == {i \in DOMAIN winAcc : winAcc[i].tags["service_name"] = n}

\* C32: a service that cannot be opened, queried or have its configuration
\* read adds no metric and no accumulator error; every other service the
\* filter matches is still opened, and adds exactly one metric unless it
\* fails itself; and Gather returns nil.
C32_ServiceFailureSkipsOne ==
  ReachedLoop =>
    \A n \in ListToSet(winGathered) :
      FailedService(n) =>
        /\ MetricsFor(n) = {}
        /\ winErrors = <<>>
        /\ winRet = "nil"
        /\ \A o \in ListToSet(winGathered) \ {n} :
             /\ Cardinality(CallsOf("OpenService", o)) = 1
             /\ ~FailedService(o) => Cardinality(MetricsFor(o)) = 1

C32_Witness ==
  /\ winRet = "nil"
  /\ winGathered = <<"a", "ab">>
  /\ winEnv.outcome["a"].fail = "query"
  /\ winEnv.outcome["ab"].fail = "none"
  /\ Len(winAcc) = 1
  /\ winAcc[1].tags["service_name"] = "ab"
  /\ winErrors = <<>>

\* The positions of the trace that hold a call of op.
Calls(op) == {i \in DOMAIN winTrace : winTrace[i].op = op}

\* C33: a Gather call that connects to the service manager disconnects
\* exactly once, whether the listing fails, services fail or all goes
\* well, and it does so after its last call on the manager or on a service;
\* a Gather call whose Connect fails does not disconnect.
C33_DisconnectOncePerConnect ==
  winRet \notin {"none", "compile error"} =>
    /\ Cardinality(Calls("Connect")) = 1 /\ winTrace[1].op = "Connect"
    /\ winTrace[1].ok = ~winEnv.connectErr
    /\ winEnv.connectErr => Calls("Disconnect") = {}
    /\ ~winEnv.connectErr =>
         /\ Calls("Disconnect") = {Len(winTrace)}
         /\ \A n \in ListToSet(winGathered) :
              \A i \in CallsOf("OpenService", n) \cup CallsOf("Close", n) :
                i < Len(winTrace)
         /\ winRet = "nil" =>
              \A n \in ListToSet(winGathered) : CallsOf("OpenService", n) # {}

C33_Witness ==
  /\ winRet = "Could not list services"
  /\ winEnv.listErr
  /\ winTrace = <<Ev("Connect", "", TRUE), Ev("ListServices", "", FALSE),
                  Ev("Disconnect", "", TRUE)>>

\* The calls made on the handle of the service n.
HandleCalls(n) == CallsOf("Query", n) \cup CallsOf("Config", n) \cup CallsOf("Close", n)

\* C34: collectServiceInfo closes the handle of a service it opened exactly
\* once, after its last call on it, whether Query fails, Config fails or
\* both succeed; it makes no call on a service whose open failed.
C34_HandleClosedOnce ==
  ReachedLoop =>
    \A n \in ListToSet(winGathered) :
      /\ Cardinality(CallsOf("OpenService", n)) = 1
      /\ \A i \in CallsOf("OpenService", n) :
           /\ winTrace[i].ok = (winEnv.outcome[n].fail # "open")
           /\ \A j \in HandleCalls(n) : i < j
      /\ IF winEnv.outcome[n].fail = "open"
         THEN HandleCalls(n) = {}
         ELSE /\ Cardinality(CallsOf("Close", n)) = 1
              /\ \A i \in CallsOf("Close", n) : \A j \in HandleCalls(n) : j <= i

C34_Witness ==
  /\ winRet = "nil"
  /\ winGathered = <<"a", "ab">>
  /\ winEnv.outcome["a"].fail = "open"
  /\ winEnv.outcome["ab"].fail = "config"
  /\ winTrace = <<Ev("Connect", "", TRUE), Ev("ListServices", "", TRUE),
                  Ev("OpenService", "a", FALSE),
                  Ev("OpenService", "ab", TRUE), Ev("Query", "ab", TRUE),
                  Ev("Config", "ab", FALSE), Ev("Close", "ab", TRUE),
                  Ev("Disconnect", "", TRUE)>>

\* The last Gather call found no filter and could not build one: m.filter
\* is still nil after it.
CompileFailed == winRet # "none" /\ svcFilter = NilFilter

\* C35: a Gather call that cannot compile the filter, cannot connect to
\* the service manager or cannot get the list of services returns an error
\* and adds no metric.
C35_SetupFailureIsAnError ==
  (CompileFailed \/ (winRet # "none" /\ (winEnv.connectErr \/ winEnv.listErr)))
    => /\ winRet \notin {"none", "nil"}
       /\ winAcc = <<>>
       /\ winGathered = <<>>

C35_Witness ==
  /\ winEnv.connectErr
  /\ winRet = "Could not open service manager"
  /\ winTrace = <<Ev("Connect", "", FALSE)>>
  /\ winAcc = <<>>

\* C36: every metric of the plugin has the tag service_name, of a service
\* that was gathered, and the fields state and startup_mode; it has the
\* tag display_name exactly when the display name of that service is not
\* empty, and no other tag.
C36_MetricShape ==
  \A i \in DOMAIN winAcc :
    LET metric == winAcc[i]
    IN  /\ metric.measurement = "win_services"
        /\ "service_name" \in DOMAIN metric.tags
        /\ DOMAIN metric.tags \subseteq {"service_name", "display_name"}
        /\ {"state", "startup_mode"} \subseteq DOMAIN metric.fields
        /\ metric.tags["service_name"] \in ListToSet(winGathered)
        /\ LET cfg == winEnv.outcome[metric.tags["service_name"]]
           IN  /\ "display_name" \in DOMAIN metric.tags <=> cfg.DisplayName # ""
               /\ "display_name" \in DOMAIN metric.tags
                    => metric.tags["display_name"] = cfg.DisplayName
               /\ metric.fields["state"] = cfg.State
               /\ metric.fields["startup_mode"] = cfg.StartUpMode

C36_Witness ==
  /\ winRet = "nil"
  /\ winGathered = <<"a", "ab">>
  /\ winEnv.outcome["a"].DisplayName = "" /\ winEnv.outcome["a"].fail = "none"
  /\ winEnv.outcome["ab"].DisplayName = "Disp"
  /\ Len(winAcc) = 2
  /\ DOMAIN winAcc[1].tags = {"service_name"}
  /\ DOMAIN winAcc[2].tags = {"service_name", "display_name"}

====
